---- MODULE Spec2Model ----
(***************************************************************************)
(* A model of src/app.py: the prediction endpoint /api/predict_all and the *)
(* helpers it is built from (to_float, adjust_to_valid_crop,               *)
(* check_crop_failure, apply_yield_correction, apply_expense_correction,   *)
(* suggest_best_crops).                                                    *)
(*                                                                         *)
(* Python floats are modelled as exact decimals [m, e] = m * 10^-e.  Every *)
(* constant of the source is a decimal with at most two fractional digits, *)
(* so sums, differences, products and comparisons are exact here.          *)
(***************************************************************************)
EXTENDS Integers, Sequences, FiniteSets, TLC

VARIABLES ALL_CROPS, models, call, req

vars == <<ALL_CROPS, models, call, req>>

----------------------------------------------------------------------------
(* Exact decimal arithmetic standing for Python float arithmetic.          *)

RECURSIVE Pow10(_)
Pow10(k) == IF k = 0 THEN 1 ELSE 10 * Pow10(k - 1)

RECURSIVE Norm(_)
Norm(d) ==
  IF d.m = 0 THEN [m |-> 0, e |-> 0]
  ELSE IF d.e > 0 /\ d.m % 10 = 0 THEN Norm([m |-> d.m \div 10, e |-> d.e - 1])
  ELSE d

Dec(m, e) == Norm([m |-> m, e |-> e])
F(n) == Dec(n, 0)
Zero == F(0)
One == F(1)

MaxOf(a, b) == IF a >= b THEN a ELSE b
MinOf(a, b) == IF a <= b THEN a ELSE b

Mant(d, e) == d.m * Pow10(e - d.e)

Mul(a, b) == Dec(a.m * b.m, a.e + b.e)
Add(a, b) == LET e == MaxOf(a.e, b.e) IN Dec(Mant(a, e) + Mant(b, e), e)
Sub(a, b) == LET e == MaxOf(a.e, b.e) IN Dec(Mant(a, e) - Mant(b, e), e)
Lt(a, b) == LET e == MaxOf(a.e, b.e) IN Mant(a, e) < Mant(b, e)
Gt(a, b) == Lt(b, a)
Le(a, b) == ~Lt(b, a)
Ge(a, b) == ~Lt(a, b)
\* max(x, 0) of lines 290-291
Max0(a) == IF Gt(a, Zero) THEN a ELSE Zero

\* f"{x:.2f}": the number of hundredths, ties rounded to even
Fmt2(d) ==
  IF d.e <= 2 THEN d.m * Pow10(2 - d.e)
  ELSE LET D == Pow10(d.e - 2)
           q == d.m \div D
           r == d.m % D
       IN IF 2 * r > D THEN q + 1
          ELSE IF 2 * r = D THEN q + (q % 2)
          ELSE q

----------------------------------------------------------------------------
(* Strings are sequences of one-character strings.                         *)

Upper == <<"A","B","C","D","E","F","G","H","I","J","K","L","M",
           "N","O","P","Q","R","S","T","U","V","W","X","Y","Z">>
Lower == <<"a","b","c","d","e","f","g","h","i","j","k","l","m",
           "n","o","p","q","r","s","t","u","v","w","x","y","z">>
Whitespace == {" ", "\t", "\n"}
Digits == <<"0","1","2","3","4","5","6","7","8","9">>

LowerChar(c) ==
  IF \E i \in 1..26 : Upper[i] = c
  THEN Lower[CHOOSE i \in 1..26 : Upper[i] = c]
  ELSE c

\* str.lower()
StrLower(s) == [i \in 1..Len(s) |-> LowerChar(s[i])]

\* str.strip()
StrStrip(s) ==
  LET keep == {i \in 1..Len(s) : s[i] \notin Whitespace}
  IN IF keep = {} THEN <<>>
     ELSE LET lo == CHOOSE i \in keep : \A j \in keep : i <= j
              hi == CHOOSE i \in keep : \A j \in keep : j <= i
          IN SubSeq(s, lo, hi)

\* p in v, for strings
Contains(v, p) ==
  \E i \in 0..(Len(v) - Len(p)) : SubSeq(v, i + 1, i + Len(p)) = p

\* s[:3]
Slice3(s) == SubSeq(s, 1, MinOf(3, Len(s)))

IsDigit(c) == \E i \in 1..10 : Digits[i] = c
DigitVal(c) == (CHOOSE i \in 1..10 : Digits[i] = c) - 1

RECURSIVE DigitsVal(_)
DigitsVal(s) ==
  IF s = <<>> THEN 0
  ELSE 10 * DigitsVal(SubSeq(s, 1, Len(s) - 1)) + DigitVal(s[Len(s)])

----------------------------------------------------------------------------
(* JSON values of a request payload.  A payload is a function on Keys; a   *)
(* key the payload does not hold maps to Missing.                          *)

Num(d) == [t |-> "num", n |-> d, s |-> <<>>]
Str(s) == [t |-> "str", n |-> Zero, s |-> s]
Null == [t |-> "null", n |-> Zero, s |-> <<>>]
Missing == [t |-> "missing", n |-> Zero, s |-> <<>>]

\* to_float (lines 81-85): float(x), and 0.0 when float(x) raises
to_float(x) ==
  IF x.t = "num" THEN x.n
  ELSE IF x.t = "str"
       THEN LET b == StrStrip(x.s)
            IN IF b # <<>> /\ \A i \in 1..Len(b) : IsDigit(b[i])
               THEN F(DigitsVal(b))
               ELSE Zero
  ELSE Zero

\* data.get(k): None for a key the mapping does not hold
Get(data, k) == IF data[k].t = "missing" THEN Null ELSE data[k]

\* Python truth of a JSON value, as `or` tests it
Truthy(x) ==
  \/ x.t = "num" /\ x.n # Zero
  \/ x.t = "str" /\ x.s # <<>>

\* a or b
Or(a, b) == IF Truthy(a) THEN a ELSE b

----------------------------------------------------------------------------
(* The keys a payload may hold.                                            *)

FeatureKeys == {"N", "P", "K", "temperature", "humidity", "ph", "rainfall"}
ShortKeys == {"fertilizer", "pesticide", "seed", "other"}
VerboseKeys == {"Fertilizer_Usage_kg_per_hectare",
                "Pesticide_Usage_litre_per_hectare",
                "Seed_Expense_per_hectare(INR)",
                "Other_Expense(INR)"}
Keys == FeatureKeys \cup {"market_price"} \cup ShortKeys \cup VerboseKeys

\* the verbose spelling each short cost key falls back to (lines 245-248)
VerboseOf(k) ==
  CASE k = "fertilizer" -> "Fertilizer_Usage_kg_per_hectare"
    [] k = "pesticide" -> "Pesticide_Usage_litre_per_hectare"
    [] k = "seed" -> "Seed_Expense_per_hectare(INR)"
    [] k = "other" -> "Other_Expense(INR)"

----------------------------------------------------------------------------
(* check_crop_failure (lines 99-129)                                       *)

B2N(b) == IF b THEN 1 ELSE 0

\* a faulty variant: the threshold of line 129 raised to three extremes
check_crop_failure_m(data) ==
  LET temp == to_float(data["temperature"])
      ph == to_float(data["ph"])
      rain == to_float(data["rainfall"])
      N == to_float(data["N"])
      P == to_float(data["P"])
      K == to_float(data["K"])
      extreme == B2N(Gt(temp, F(45))) + B2N(Lt(rain, F(20))) + B2N(Lt(ph, F(5)))
                 + B2N(Lt(N, F(20))) + B2N(Lt(P, F(15))) + B2N(Lt(K, F(15)))
  IN extreme >= 3

check_crop_failure(data) ==
  LET temp == to_float(data["temperature"])
      ph == to_float(data["ph"])
      rain == to_float(data["rainfall"])
      N == to_float(data["N"])
      P == to_float(data["P"])
      K == to_float(data["K"])
      e1 == IF Gt(temp, F(45)) THEN 1 ELSE 0
      e2 == IF Lt(rain, F(20)) THEN e1 + 1 ELSE e1
      e3 == IF Lt(ph, F(5)) THEN e2 + 1 ELSE e2
      e4 == IF Lt(N, F(20)) THEN e3 + 1 ELSE e3
      e5 == IF Lt(P, F(15)) THEN e4 + 1 ELSE e4
      extreme == IF Lt(K, F(15)) THEN e5 + 1 ELSE e5
  IN extreme >= 2

----------------------------------------------------------------------------
(* apply_yield_correction (lines 135-157) and apply_expense_correction     *)
(* (lines 162-173).  YieldCorr and ExpenseCorr are the local `corr`.       *)

\* a faulty variant: the elif of line 147 written as a second if
YieldCorr_m(data) ==
  LET temp == to_float(data["temperature"])
      ph == to_float(data["ph"])
      rain == to_float(data["rainfall"])
      humidity == to_float(data["humidity"])
      N == to_float(data["N"])
      P == to_float(data["P"])
      K == to_float(data["K"])
      c0 == One
      c1a == IF Gt(temp, F(45)) THEN Mul(c0, Dec(30, 2)) ELSE c0
      c1 == IF Gt(temp, F(38)) THEN Mul(c1a, Dec(55, 2)) ELSE c1a
      c2 == IF Lt(rain, F(20)) THEN Mul(c1, Dec(40, 2))
            ELSE IF Lt(rain, F(40)) THEN Mul(c1, Dec(65, 2)) ELSE c1
      c3 == IF Lt(ph, F(5)) \/ Gt(ph, F(8)) THEN Mul(c2, Dec(50, 2)) ELSE c2
      c4 == IF Lt(N, F(40)) THEN Mul(c3, Dec(60, 2)) ELSE c3
      c5 == IF Lt(P, F(30)) THEN Mul(c4, Dec(70, 2)) ELSE c4
      c6 == IF Lt(K, F(30)) THEN Mul(c5, Dec(60, 2)) ELSE c5
  IN IF Gt(humidity, F(85)) THEN Mul(c6, Dec(80, 2)) ELSE c6

YieldCorr(data) ==
  LET temp == to_float(data["temperature"])
      ph == to_float(data["ph"])
      rain == to_float(data["rainfall"])
      humidity == to_float(data["humidity"])
      N == to_float(data["N"])
      P == to_float(data["P"])
      K == to_float(data["K"])
      c0 == One
      c1 == IF Gt(temp, F(45)) THEN Mul(c0, Dec(30, 2))
            ELSE IF Gt(temp, F(38)) THEN Mul(c0, Dec(55, 2)) ELSE c0
      c2 == IF Lt(rain, F(20)) THEN Mul(c1, Dec(40, 2))
            ELSE IF Lt(rain, F(40)) THEN Mul(c1, Dec(65, 2)) ELSE c1
      c3 == IF Lt(ph, F(5)) \/ Gt(ph, F(8)) THEN Mul(c2, Dec(50, 2)) ELSE c2
      c4 == IF Lt(N, F(40)) THEN Mul(c3, Dec(60, 2)) ELSE c3
      c5 == IF Lt(P, F(30)) THEN Mul(c4, Dec(70, 2)) ELSE c4
      c6 == IF Lt(K, F(30)) THEN Mul(c5, Dec(60, 2)) ELSE c5
  IN IF Gt(humidity, F(85)) THEN Mul(c6, Dec(80, 2)) ELSE c6

apply_yield_correction(raw_yield, data) == Mul(raw_yield, YieldCorr(data))

ExpenseCorr(data) ==
  LET temp == to_float(data["temperature"])
      rain == to_float(data["rainfall"])
      humidity == to_float(data["humidity"])
      c0 == One
      c1 == IF Gt(temp, F(40)) THEN Mul(c0, Dec(120, 2)) ELSE c0
      c2 == IF Lt(rain, F(20)) THEN Mul(c1, Dec(130, 2)) ELSE c1
  IN IF Gt(humidity, F(90)) THEN Mul(c2, Dec(115, 2)) ELSE c2

apply_expense_correction(expense, data) == Mul(expense, ExpenseCorr(data))

----------------------------------------------------------------------------
(* Feature records.                                                        *)

\* a record of numeric features; the keys it does not name are absent
Features(n, p, k, t, h, ph, r) ==
  [x \in Keys |->
     CASE x = "N" -> Num(F(n))
       [] x = "P" -> Num(F(p))
       [] x = "K" -> Num(F(k))
       [] x = "temperature" -> Num(F(t))
       [] x = "humidity" -> Num(F(h))
       [] x = "ph" -> Num(F(ph))
       [] x = "rainfall" -> Num(F(r))
       [] OTHER -> Missing]

\* how far around each threshold of check_crop_failure the inputs range
Spread == 1

Around(c) == (c - Spread)..(c + Spread)

FailureInputs ==
  {Features(n, p, k, t, 50, ph, r) :
     n \in Around(20), p \in Around(15), k \in Around(15),
     t \in Around(45), ph \in Around(5), r \in Around(20)}

\* the band edges of both correction chains
CorrectionInputs ==
  {Features(n, p, k, t, h, ph, r) :
     n \in {39, 40}, p \in {29, 30}, k \in {29, 30},
     t \in {38, 39, 40, 41, 42, 45, 46}, h \in {85, 86, 90, 91},
     ph \in {4, 5, 8, 9}, r \in {19, 20, 39, 40}}

RawPredictions == {F(0), F(1), Dec(25, 1), F(1000)}

NoModels == [crop |-> <<>>, yield |-> Zero, expense |-> Zero]

----------------------------------------------------------------------------
(* check_crop_failure applied to every feature record of FailureInputs.    *)

InitFailure ==
  /\ ALL_CROPS = <<>>
  /\ models = NoModels
  /\ req = <<>>
  /\ \E d \in FailureInputs :
       call = [fn |-> "check_crop_failure", data |-> d, done |-> FALSE,
               ret |-> FALSE]

CallCheckFailure ==
  /\ call.fn = "check_crop_failure"
  /\ ~call.done
  /\ call' = [call EXCEPT !.done = TRUE, !.ret = check_crop_failure(call.data)]
  /\ UNCHANGED <<ALL_CROPS, models, req>>

NextFailure == CallCheckFailure

SpecFailure == InitFailure /\ [][NextFailure]_vars

\* the six conditions of the failure detector that hold of a feature record
Extremes(d) ==
  {c \in {"temp", "rain", "ph", "N", "P", "K"} :
     \/ c = "temp" /\ Gt(to_float(d["temperature"]), F(45))
     \/ c = "rain" /\ Lt(to_float(d["rainfall"]), F(20))
     \/ c = "ph" /\ Lt(to_float(d["ph"]), F(5))
     \/ c = "N" /\ Lt(to_float(d["N"]), F(20))
     \/ c = "P" /\ Lt(to_float(d["P"]), F(15))
     \/ c = "K" /\ Lt(to_float(d["K"]), F(15))}

\* C1: check_crop_failure returns true if and only if at least two of the
\* six conditions temperature > 45, rainfall < 20, ph < 5, N < 20, P < 15,
\* K < 15 hold; with none or exactly one holding it returns false.
C1_FailureIffTwoExtremes ==
  (call.fn = "check_crop_failure" /\ call.done) =>
     /\ call.ret = (Cardinality(Extremes(call.data)) >= 2)
     /\ (Cardinality(Extremes(call.data)) \in {0, 1} => call.ret = FALSE)

\* a record with exactly two extremes was judged a failure
C1_Witness ==
  /\ call.fn = "check_crop_failure" /\ call.done
  /\ Cardinality(Extremes(call.data)) = 2
  /\ call.ret = TRUE

----------------------------------------------------------------------------
(* Both correction functions applied to every record of CorrectionInputs.  *)

InitCorrection ==
  /\ ALL_CROPS = <<>>
  /\ models = NoModels
  /\ req = <<>>
  /\ \E d \in CorrectionInputs, r \in RawPredictions,
        f \in {"apply_yield_correction", "apply_expense_correction"} :
       call = [fn |-> f, data |-> d, raw |-> r, done |-> FALSE,
               corr |-> Zero, ret |-> Zero]

CallYieldCorrection ==
  /\ call.fn = "apply_yield_correction"
  /\ ~call.done
  /\ call' = [call EXCEPT !.done = TRUE,
                          !.corr = YieldCorr(call.data),
                          !.ret = apply_yield_correction(call.raw, call.data)]
  /\ UNCHANGED <<ALL_CROPS, models, req>>

CallExpenseCorrection ==
  /\ call.fn = "apply_expense_correction"
  /\ ~call.done
  /\ call' = [call EXCEPT !.done = TRUE,
                          !.corr = ExpenseCorr(call.data),
                          !.ret = apply_expense_correction(call.raw, call.data)]
  /\ UNCHANGED <<ALL_CROPS, models, req>>

NextCorrection == CallYieldCorrection \/ CallExpenseCorrection

SpecCorrection == InitCorrection /\ [][NextCorrection]_vars

\* the smallest yield multiplier with one band factor each for temperature
\* and rainfall: 0.30 * 0.40 * 0.50 * 0.60 * 0.70 * 0.60 * 0.80
MinYieldCorr == Dec(12096, 6)

\* C9: apply_yield_correction returns a value <= the raw yield, its
\* multiplier lying in (0, 1] with at most one band factor each for
\* temperature and rainfall (so never below 0.012096, and 0.55 alone at 42
\* degrees, 0.30 alone at 46); apply_expense_correction returns a value >=
\* the raw expense, its multiplier being >= 1.
C9_CorrectionBounds ==
  /\ (call.fn = "apply_yield_correction" /\ call.done) =>
       /\ Le(call.ret, call.raw)
       /\ Gt(call.corr, Zero) /\ Le(call.corr, One)
       /\ Ge(call.corr, MinYieldCorr)
       /\ call.ret = Mul(call.raw, call.corr)
       /\ (call.data = Features(40, 30, 30, 42, 85, 5, 40) => call.corr = Dec(55, 2))
       /\ (call.data = Features(40, 30, 30, 46, 85, 5, 40) => call.corr = Dec(30, 2))
  /\ (call.fn = "apply_expense_correction" /\ call.done) =>
       /\ Ge(call.ret, call.raw)
       /\ Ge(call.corr, One)
       /\ call.ret = Mul(call.raw, call.corr)

\* the scenario raw_yield = 1000 at 46 degrees came out as 300
C9_Witness ==
  /\ call.fn = "apply_yield_correction" /\ call.done
  /\ call.raw = F(1000)
  /\ call.data = Features(40, 30, 30, 46, 85, 5, 40)
  /\ call.ret = F(300)

----------------------------------------------------------------------------
(* Crop names, and CROP_FACTOR (lines 179-196).                            *)

Crop_rice == <<"r","i","c","e">>
Crop_wheat == <<"w","h","e","a","t">>
Crop_maize == <<"m","a","i","z","e">>
Crop_banana == <<"b","a","n","a","n","a">>
Crop_barley == <<"b","a","r","l","e","y">>
Crop_blackgram == <<"b","l","a","c","k","g","r","a","m">>
Crop_brinjal == <<"b","r","i","n","j","a","l">>
Crop_sesame == <<"s","e","s","a","m","e">>
Crop_chickpea == <<"c","h","i","c","k","p","e","a">>
Crop_onion == <<"o","n","i","o","n">>
Crop_chilli == <<"c","h","i","l","l","i">>
Crop_cauliflower == <<"c","a","u","l","i","f","l","o","w","e","r">>
Crop_pigeonpeas == <<"p","i","g","e","o","n","p","e","a","s">>
Crop_potato == <<"p","o","t","a","t","o">>
Crop_sorghum == <<"s","o","r","g","h","u","m">>
Crop_sugarcane == <<"s","u","g","a","r","c","a","n","e">>
Crop_jute == <<"j","u","t","e">>

\* CROP_FACTOR.get(crop, 0.75) of line 204
CROP_FACTOR_get(crop) ==
  CASE crop = Crop_rice -> Dec(78, 2)
    [] crop = Crop_wheat -> Dec(74, 2)
    [] crop = Crop_maize -> Dec(72, 2)
    [] crop = Crop_banana -> Dec(70, 2)
    [] crop = Crop_barley -> Dec(69, 2)
    [] crop = Crop_blackgram -> Dec(68, 2)
    [] crop = Crop_brinjal -> Dec(71, 2)
    [] crop = Crop_sesame -> Dec(67, 2)
    [] crop = Crop_chickpea -> Dec(73, 2)
    [] crop = Crop_onion -> Dec(66, 2)
    [] crop = Crop_chilli -> Dec(65, 2)
    [] crop = Crop_cauliflower -> Dec(70, 2)
    [] crop = Crop_pigeonpeas -> Dec(74, 2)
    [] crop = Crop_potato -> Dec(76, 2)
    [] crop = Crop_sorghum -> Dec(69, 2)
    [] crop = Crop_sugarcane -> Dec(64, 2)
    [] OTHER -> Dec(75, 2)

----------------------------------------------------------------------------
(* ALL_CROPS (lines 67-76): the sorted distinct labels of the dataset, or  *)
(* the empty list when the dataset is missing.                             *)

\* labels a dataset may hold, in sorted order; jute has no CROP_FACTOR entry
LabelUniverse ==
  <<Crop_banana, Crop_cauliflower, Crop_jute, Crop_onion, Crop_rice, Crop_wheat>>

\* the labels at the positions S, in order
RECURSIVE Pick(_, _)
Pick(S, i) ==
  IF i > Len(LabelUniverse) THEN <<>>
  ELSE IF i \in S THEN <<LabelUniverse[i]>> \o Pick(S, i + 1)
  ELSE Pick(S, i + 1)

Catalogs == {Pick(S, 1) : S \in SUBSET (1..Len(LabelUniverse))}

InList(x, lst) == \E i \in 1..Len(lst) : lst[i] = x

----------------------------------------------------------------------------
(* adjust_to_valid_crop (lines 87-94).  The result is [exc, val]: exc is   *)
(* the exception raised ("" for none), val the value returned.             *)

Return(v) == [exc |-> "", val |-> v]
Raise(e) == [exc |-> e, val |-> <<>>]

\* a faulty variant: the fallback of line 94 returns the raw name when nothing
\* in the list matches
adjust_to_valid_crop_m(pred_crop, valid_list) ==
  LET pc == StrStrip(StrLower(pred_crop))
      hits == {i \in 1..Len(valid_list) : Contains(valid_list[i], Slice3(pc))}
  IN IF InList(pc, valid_list) THEN Return(pc)
     ELSE IF hits # {}
          THEN Return(valid_list[CHOOSE i \in hits : \A j \in hits : i <= j])
     ELSE Return(pc)

adjust_to_valid_crop(pred_crop, valid_list) ==
  LET pc == StrStrip(StrLower(pred_crop))
      hits == {i \in 1..Len(valid_list) : Contains(valid_list[i], Slice3(pc))}
  IN IF InList(pc, valid_list) THEN Return(pc)
     ELSE IF hits # {}
          THEN Return(valid_list[CHOOSE i \in hits : \A j \in hits : i <= j])
     ELSE IF Len(valid_list) = 0 THEN Raise("IndexError")
     ELSE Return(valid_list[1])

\* the longest predicted label tried
MaxLen == 4

LabelChars == {"r", "i", "c", "e", "R", " "}

RECURSIVE StringsUpTo(_)
StringsUpTo(n) ==
  IF n = 0 THEN {<<>>}
  ELSE LET shorter == StringsUpTo(n - 1)
       IN shorter \cup {Append(s, c) : s \in {t \in shorter : Len(t) = n - 1},
                                        c \in LabelChars}

InitResolve ==
  /\ ALL_CROPS \in Catalogs
  /\ models = NoModels
  /\ req = <<>>
  /\ \E x \in StringsUpTo(MaxLen) :
       call = [fn |-> "adjust_to_valid_crop", x |-> x, done |-> FALSE,
               ret |-> Raise("")]

CallAdjustToValidCrop ==
  /\ call.fn = "adjust_to_valid_crop"
  /\ ~call.done
  /\ call' = [call EXCEPT !.done = TRUE,
                          !.ret = adjust_to_valid_crop(call.x, ALL_CROPS)]
  /\ UNCHANGED <<ALL_CROPS, models, req>>

NextResolve == CallAdjustToValidCrop

SpecResolve == InitResolve /\ [][NextResolve]_vars

\* the first entry of lst, in order, that contains p; lst[1] when none does
FirstContaining(lst, p) ==
  IF \E i \in 1..Len(lst) : Contains(lst[i], p)
  THEN lst[CHOOSE i \in 1..Len(lst) :
             /\ Contains(lst[i], p)
             /\ \A j \in 1..(i - 1) : ~Contains(lst[j], p)]
  ELSE lst[1]

\* what the resolver returns when the three characters matched are those of
\* `probe`
Resolved(x, probe, lst) ==
  LET n == StrStrip(StrLower(x))
  IN IF InList(n, lst) THEN n ELSE FirstContaining(lst, Slice3(probe))

\* C5 (as stated): for every string x and every non-empty catalog,
\* adjust_to_valid_crop returns without raising a member of the catalog:
\* the lowercased, trimmed x if that is a member, otherwise the first entry
\* containing the first three characters of x itself, otherwise the first
\* entry.
C5_AsStated ==
  (call.fn = "adjust_to_valid_crop" /\ call.done /\ ALL_CROPS # <<>>) =>
     /\ call.ret.exc = ""
     /\ InList(call.ret.val, ALL_CROPS)
     /\ call.ret.val = Resolved(call.x, call.x, ALL_CROPS)

\* C5 (amended): as above, the three characters matched being the first
\* three of the lowercased, trimmed x.
C5_ResolvesNormalizedPrefix ==
  (call.fn = "adjust_to_valid_crop" /\ call.done /\ ALL_CROPS # <<>>) =>
     /\ call.ret.exc = ""
     /\ InList(call.ret.val, ALL_CROPS)
     /\ call.ret.val = Resolved(call.x, StrStrip(StrLower(call.x)), ALL_CROPS)

\* a two-character label that is no member and matches no entry resolved to
\* the first entry of a catalog of several
C5_Witness ==
  /\ call.fn = "adjust_to_valid_crop" /\ call.done
  /\ Len(ALL_CROPS) >= 2
  /\ call.x = <<"r", "r">>
  /\ call.ret = Return(ALL_CROPS[1])

----------------------------------------------------------------------------
(* suggest_best_crops (lines 197-233)                                      *)

\* fixed_expense of lines 210-215
fixed_expense(data) ==
  Add(Add(Add(Mul(to_float(Get(data, "fertilizer")), F(40)),
              Mul(to_float(Get(data, "pesticide")), F(120))),
          to_float(Get(data, "seed"))),
      to_float(Get(data, "other")))

\* the entry appended for one crop (lines 204-223)
Candidate(crop, data, user_price, base_yield) ==
  LET factor == CROP_FACTOR_get(crop)
      approx_yield == Mul(base_yield, factor)
      revenue == Mul(approx_yield, user_price)
      profit == Sub(revenue, fixed_expense(data))
  IN [Crop |-> crop, Yield |-> approx_yield, Profit |-> profit]

\* x put into a list sorted by Profit, largest first, behind every entry
\* whose Profit is not smaller than its own
InsertDesc(x, lst) ==
  LET k == Cardinality({i \in 1..Len(lst) : Ge(lst[i].Profit, x.Profit)})
  IN SubSeq(lst, 1, k) \o <<x>> \o SubSeq(lst, k + 1, Len(lst))

\* sorted(suggestions, key=Profit, reverse=True) of line 226: a stable sort
RECURSIVE SortedByProfitDesc(_)
SortedByProfitDesc(lst) ==
  IF lst = <<>> THEN <<>>
  ELSE InsertDesc(lst[Len(lst)], SortedByProfitDesc(SubSeq(lst, 1, Len(lst) - 1)))

\* a faulty variant: line 228 keeps the entries that break even as well
Profitable_m(lst) == SelectSeq(lst, LAMBDA c : Ge(c.Profit, Zero))

\* line 228
Profitable(lst) == SelectSeq(lst, LAMBDA c : Gt(c.Profit, Zero))

suggest_best_crops(data, user_price, base_yield) ==
  LET suggestions == [i \in 1..Len(ALL_CROPS) |->
                        Candidate(ALL_CROPS[i], data, user_price, base_yield)]
      profitable == Profitable(SortedByProfitDesc(suggestions))
  IN SubSeq(profitable, 1, MinOf(3, Len(profitable)))

\* a mapping holding the four cost fields as numbers
Costs(fert, pest, seed, other) ==
  [x \in Keys |->
     CASE x = "fertilizer" -> Num(F(fert))
       [] x = "pesticide" -> Num(F(pest))
       [] x = "seed" -> Num(F(seed))
       [] x = "other" -> Num(F(other))
       [] OTHER -> Missing]

\* the largest fertilizer and pesticide usage tried
MaxUsage == 1

SuggestCosts ==
  {Costs(f, p, sd, o) : f \in 0..MaxUsage, p \in 0..MaxUsage,
                        sd \in {0, 200, 3700, 3750}, o \in {0, 50}}

SuggestPrices == {F(0), F(1), F(10)}
SuggestYields == {F(0), F(1), F(500)}

InitSuggest ==
  /\ ALL_CROPS \in Catalogs
  /\ models = NoModels
  /\ req = <<>>
  /\ \E d \in SuggestCosts, pr \in SuggestPrices, y \in SuggestYields :
       call = [fn |-> "suggest_best_crops", data |-> d, user_price |-> pr,
               base_yield |-> y, done |-> FALSE, ret |-> <<>>]

CallSuggestBestCrops ==
  /\ call.fn = "suggest_best_crops"
  /\ ~call.done
  /\ call' = [call EXCEPT !.done = TRUE,
               !.ret = suggest_best_crops(call.data, call.user_price, call.base_yield)]
  /\ UNCHANGED <<ALL_CROPS, models, req>>

NextSuggest == CallSuggestBestCrops

SpecSuggest == InitSuggest /\ [][NextSuggest]_vars

\* the profit of catalog entry i under the flat cost model
ProfitOf(i) ==
  Sub(Mul(Mul(call.base_yield, CROP_FACTOR_get(ALL_CROPS[i])), call.user_price),
      fixed_expense(call.data))

\* the catalog position of a crop name
PosOf(crop) == CHOOSE i \in 1..Len(ALL_CROPS) : ALL_CROPS[i] = crop

\* C7: suggest_best_crops returns at most 3 entries, each a catalog crop
\* with profit > 0, in non-increasing profit order, entries of equal profit
\* in catalog order; no catalog crop left out has a profit strictly greater
\* than a returned one; the list is empty exactly when no catalog crop has
\* profit > 0.
C7_TopThreeProfitable ==
  (call.fn = "suggest_best_crops" /\ call.done) =>
     LET out == call.ret
         shown == {out[i].Crop : i \in 1..Len(out)}
     IN /\ Len(out) <= 3
        /\ \A i \in 1..Len(out) :
             /\ InList(out[i].Crop, ALL_CROPS)
             /\ out[i].Profit = ProfitOf(PosOf(out[i].Crop))
             /\ Gt(out[i].Profit, Zero)
        /\ \A i, j \in 1..Len(out) :
             i < j => /\ Ge(out[i].Profit, out[j].Profit)
                      /\ out[i].Crop # out[j].Crop
                      /\ (out[i].Profit = out[j].Profit
                            => PosOf(out[i].Crop) < PosOf(out[j].Crop))
        /\ \A k \in 1..Len(ALL_CROPS) :
             ALL_CROPS[k] \notin shown =>
               \A i \in 1..Len(out) : Le(ProfitOf(k), out[i].Profit)
        /\ (out = <<>>) = (\A k \in 1..Len(ALL_CROPS) : Le(ProfitOf(k), Zero))

\* three crops were returned, the last two tied on profit while a profitable
\* crop was left out
C7_Witness ==
  /\ call.fn = "suggest_best_crops" /\ call.done
  /\ Len(call.ret) = 3
  /\ call.ret[2].Profit = call.ret[3].Profit
  /\ \E k \in 1..Len(ALL_CROPS) :
       /\ Gt(ProfitOf(k), Zero)
       /\ \A i \in 1..3 : call.ret[i].Crop # ALL_CROPS[k]

----------------------------------------------------------------------------
(* api_predict_all (lines 238-324).  A request in flight is a record of    *)
(* the handler's locals; pc names the statement it has reached.  The three *)
(* predictors and the label decoder are opaque: `models` holds what each   *)
(* returns, fixed when the process starts.                                 *)

CropFailure == <<"C","r","o","p"," ","F","a","i","l","u","r","e">>

EmptyPayload == [k \in Keys |-> Missing]

NoX == [k \in FeatureKeys |-> Zero]

NoResponse ==
  [status |-> "none", error |-> <<>>, Predicted_Crop |-> <<>>,
   Predicted_Yield |-> 0, Total_Expense |-> 0, Predicted_Revenue |-> 0,
   Profit |-> 0, Loss |-> 0, Best_Crops |-> <<>>, show_suggestions |-> FALSE]

Idle ==
  [pc |-> "idle", payload |-> EmptyPayload, data |-> EmptyPayload,
   X |-> NoX, crop_raw |-> <<>>, crop_final |-> <<>>,
   raw_yield |-> Zero, predicted_yield |-> Zero,
   raw_exp |-> Zero, predicted_expense |-> Zero,
   price |-> Zero, revenue |-> Zero, profit |-> Zero, loss |-> Zero,
   best |-> <<>>, ranked |-> FALSE, resp |-> NoResponse]

\* request.get_json() of line 242
Arrived(p) == [Idle EXCEPT !.pc = "normalize", !.payload = p, !.data = p]

\* the except clause of lines 322-324
Failed(r, type, arg) ==
  [r EXCEPT !.pc = "done",
            !.resp = [NoResponse EXCEPT !.status = "error", !.error = <<type, arg>>]]

\* lines 245-248, one cost field
NormalizedCost(data, k) ==
  Num(to_float(Or(Get(data, k), Get(data, VerboseOf(k)))))

\* lines 244-252
Normalize(r) ==
  LET d1 == [k \in Keys |->
               IF k \in ShortKeys THEN NormalizedCost(r.data, k) ELSE r.data[k]]
      seed == d1["seed"]
      d2 == IF seed.t = "missing" \/ (seed.t = "str" /\ seed.s = <<>>) \/ seed.t = "null"
            THEN [d1 EXCEPT !["seed"] = Num(Zero)]
            ELSE d1
  IN [r EXCEPT !.pc = "features", !.data = d2]

\* the order in which lines 255-261 subscript data
FeatureOrder == <<"N", "P", "K", "temperature", "humidity", "ph", "rainfall">>

\* lines 253-266: data[k] raises KeyError for the first key not held
PredictCrop(r) ==
  LET absent == {i \in 1..Len(FeatureOrder) : r.data[FeatureOrder[i]].t = "missing"}
  IN IF absent # {}
     THEN Failed(r, "KeyError",
                 FeatureOrder[CHOOSE i \in absent : \A j \in absent : i <= j])
     ELSE [r EXCEPT !.pc = "resolve",
                    !.X = [k \in FeatureKeys |-> to_float(r.data[k])],
                    !.crop_raw = StrLower(models.crop)]

\* lines 268-271
ResolveCrop(r) ==
  IF check_crop_failure(r.data)
  THEN [r EXCEPT !.pc = "yield", !.crop_final = CropFailure]
  ELSE LET res == adjust_to_valid_crop(r.crop_raw, ALL_CROPS)
       IN IF res.exc # "" THEN Failed(r, res.exc, "list index out of range")
          ELSE [r EXCEPT !.pc = "yield", !.crop_final = res.val]

\* a faulty variant: line 275 corrects the raw yield whatever the detector says
PredictYield_m(r) ==
  [r EXCEPT !.pc = "expense",
            !.raw_yield = models.yield,
            !.predicted_yield = apply_yield_correction(models.yield, r.data)]

\* lines 273-275
PredictYield(r) ==
  [r EXCEPT !.pc = "expense",
            !.raw_yield = models.yield,
            !.predicted_yield =
               IF check_crop_failure(r.data) THEN One
               ELSE apply_yield_correction(models.yield, r.data)]

\* lines 277-285
PredictExpense(r) ==
  [r EXCEPT !.pc = "profit",
            !.raw_exp = models.expense,
            !.predicted_expense = apply_expense_correction(models.expense, r.data)]

\* a faulty variant: line 297 asks for suggestions at break-even and at a loss too
WantsSuggestions_m(profit) == Ge(profit, Zero)

\* line 297
WantsSuggestions(profit) == Gt(profit, Zero)

\* lines 287-301
ProfitAndSuggest(r) ==
  IF r.data["market_price"].t = "missing"
  THEN Failed(r, "KeyError", "market_price")
  ELSE LET price == to_float(r.data["market_price"])
           revenue == Mul(r.predicted_yield, price)
           profit == Max0(Sub(revenue, r.predicted_expense))
           loss == Max0(Sub(r.predicted_expense, revenue))
           ask == WantsSuggestions(profit)
       IN [r EXCEPT !.pc = "respond",
                    !.price = price, !.revenue = revenue,
                    !.profit = profit, !.loss = loss,
                    !.ranked = ask,
                    !.best = IF ask
                             THEN suggest_best_crops(r.data, price, r.predicted_yield)
                             ELSE <<>>]

\* lines 304-320
Respond(r) ==
  [r EXCEPT !.pc = "done",
     !.resp = [status |-> "ok", error |-> <<>>,
               Predicted_Crop |-> r.crop_final,
               Predicted_Yield |-> Fmt2(r.predicted_yield),
               Total_Expense |-> Fmt2(r.predicted_expense),
               Predicted_Revenue |-> Fmt2(r.revenue),
               Profit |-> Fmt2(r.profit),
               Loss |-> Fmt2(r.loss),
               Best_Crops |-> [i \in 1..Len(r.best) |->
                                 [Crop |-> r.best[i].Crop,
                                  Yield |-> Fmt2(r.best[i].Yield),
                                  Profit |-> Fmt2(r.best[i].Profit)]],
               show_suggestions |-> Gt(r.profit, Zero)]]

\* the statement a request at r.pc runs next
Advance(r) ==
  CASE r.pc = "normalize" -> Normalize(r)
    [] r.pc = "features" -> PredictCrop(r)
    [] r.pc = "resolve" -> ResolveCrop(r)
    [] r.pc = "yield" -> PredictYield(r)
    [] r.pc = "expense" -> PredictExpense(r)
    [] r.pc = "profit" -> ProfitAndSuggest(r)
    [] r.pc = "respond" -> Respond(r)
    [] OTHER -> r

Running(r) == r.pc \notin {"idle", "done"}

\* the handler run from r to its response
RECURSIVE RunToEnd(_)
RunToEnd(r) == IF Running(r) THEN RunToEnd(Advance(r)) ELSE r

----------------------------------------------------------------------------
(* Startup state and request payloads.                                     *)

\* what the decoded classifier, the yield regressor and the expense
\* regressor return
Models ==
  [crop : {<<"R", "i", "c", "e">>, <<"r", "a", "g", "i">>},
   yield : {F(3), F(1000)},
   expense : {F(5), F(500), F(50000)}]

ApiCatalogs ==
  {<<>>, <<Crop_rice>>, <<Crop_banana, Crop_cauliflower, Crop_jute, Crop_rice>>,
   LabelUniverse}

\* no extreme; 42 degrees; one extreme (46 degrees); the five extremes of
\* the failure scenario
Profiles ==
  {Features(50, 50, 50, 30, 50, 6, 100),
   Features(50, 50, 50, 42, 50, 6, 100),
   Features(50, 50, 50, 46, 50, 6, 100),
   Features(10, 10, 10, 50, 50, 4, 10)}

WithShortCosts(p) ==
  [p EXCEPT !["fertilizer"] = Num(F(5)), !["pesticide"] = Num(F(1)),
            !["seed"] = Num(F(200)), !["other"] = Num(F(50))]

BasePayloads ==
  LET priced == {[f EXCEPT !["market_price"] = Num(F(pr))] :
                   f \in Profiles, pr \in {0, 10}}
  IN priced \cup {WithShortCosts(p) : p \in priced}

\* a key left out, null, and strings float() rejects
BadValues == {Missing, Null, Str(<<>>), Str(<<"a", "b", "c">>)}

\* what a cost key may hold
CostValues ==
  BadValues \cup {Num(F(0)), Num(F(5)), Str(<<" ", "7", "0">>)}

NumericKeys == FeatureKeys \cup {"market_price"} \cup ShortKeys

\* a base payload with one numeric field spoiled
SpoiledPayloads ==
  {[b EXCEPT ![k] = v] : b \in BasePayloads, k \in NumericKeys, v \in BadValues}

\* every pairing of a short cost key with its verbose spelling
AliasPayloads ==
  LET b == [Features(50, 50, 50, 30, 50, 6, 100) EXCEPT !["market_price"] = Num(F(10))]
  IN {[b EXCEPT ![k] = sv, ![VerboseOf(k)] = vv] :
        k \in ShortKeys, sv \in CostValues, vv \in CostValues}

Payloads == BasePayloads \cup SpoiledPayloads \cup AliasPayloads

----------------------------------------------------------------------------
(* The server handling one request at a time, each request by one run of   *)
(* api_predict_all.                                                        *)

Init ==
  /\ ALL_CROPS \in ApiCatalogs
  /\ models \in Models
  /\ call = [fn |-> "none"]
  /\ req = [i \in {1} |-> Idle]

\* a request with a payload of P reaches the handler
Accept(i, P) ==
  /\ req[i].pc = "idle"
  /\ \E p \in P : req' = [req EXCEPT ![i] = Arrived(p)]
  /\ UNCHANGED <<ALL_CROPS, models, call>>

Receive(i) == Accept(i, Payloads)

api_predict_all(i) ==
  /\ req[i].pc = "normalize"
  /\ req' = [req EXCEPT ![i] = RunToEnd(req[i])]
  /\ UNCHANGED <<ALL_CROPS, models, call>>

Reply(i) ==
  /\ req[i].pc = "done"
  /\ req' = [req EXCEPT ![i] = Idle]
  /\ UNCHANGED <<ALL_CROPS, models, call>>

Next ==
  \/ \E i \in DOMAIN req : Receive(i)
  \/ \E i \in DOMAIN req : api_predict_all(i)
  \/ \E i \in DOMAIN req : Reply(i)

Spec == Init /\ [][Next]_vars

----------------------------------------------------------------------------
(* Properties of the responses of api_predict_all.                         *)

Answered(i) == req[i].pc = "done" /\ req[i].resp.status = "ok"

\* every key the handler subscripts is in the payload
RequiredKeysPresent(p) ==
  \A k \in FeatureKeys \cup {"market_price"} : p[k].t # "missing"

\* C2: a request that holds every key the handler subscripts is answered
\* whenever check_crop_failure is true or the catalog is not empty.  In an
\* answered request for which check_crop_failure is true the crop is
\* "Crop Failure" and the yield exactly 1.0 (formatted 1.00) whatever the
\* classifier and the yield regressor return; when it is false the crop is
\* a catalog name and the yield is the corrected raw yield.  In both cases
\* the expense is the raw expense times the expense-correction factor, 1.56
\* in the failure scenario.
C2_FailureOverridesCropAndYield ==
  \A i \in DOMAIN req :
    /\ (req[i].pc = "done" /\ RequiredKeysPresent(req[i].payload)
          /\ (ALL_CROPS # <<>> \/ Cardinality(Extremes(req[i].data)) >= 2))
         => req[i].resp.status = "ok"
    /\ Answered(i) =>
      LET r == req[i]
          failure == Cardinality(Extremes(r.data)) >= 2
      IN /\ failure =>
              /\ r.resp.Predicted_Crop = CropFailure
              /\ r.predicted_yield = One
              /\ r.resp.Predicted_Yield = 100
         /\ ~failure =>
              /\ InList(r.resp.Predicted_Crop, ALL_CROPS)
              /\ r.predicted_yield = Mul(models.yield, YieldCorr(r.data))
              /\ r.resp.Predicted_Yield = Fmt2(Mul(models.yield, YieldCorr(r.data)))
         /\ r.predicted_expense = Mul(models.expense, ExpenseCorr(r.data))
         /\ r.resp.Total_Expense = Fmt2(Mul(models.expense, ExpenseCorr(r.data)))
         /\ (\A k \in FeatureKeys :
                r.data[k] = Features(10, 10, 10, 50, 50, 4, 10)[k])
              => r.predicted_expense = Mul(models.expense, Dec(156, 2))

\* a failure response for a request whose raw yield was 1000 and whose
\* label resolves in the catalog
C2_Witness ==
  \E i \in DOMAIN req :
    /\ Answered(i)
    /\ Cardinality(Extremes(req[i].data)) >= 2
    /\ req[i].raw_yield = F(1000)
    /\ InList(Crop_rice, ALL_CROPS)
    /\ req[i].resp.Predicted_Crop = CropFailure
    /\ req[i].resp.Predicted_Yield = 100
    /\ Gt(req[i].predicted_expense, req[i].raw_exp)

\* C3: a numeric field of the payload that is missing, None or non-numeric
\* is replaced by 0.0, and the request does not end in an error because of
\* it.
C3_BadFieldsDefaultToZero ==
  \A i \in DOMAIN req :
    req[i].pc = "done" =>
      LET r == req[i] IN
      /\ \A k \in FeatureKeys \cup {"market_price"} :
           r.payload[k] \in BadValues =>
             /\ r.resp.error # <<"KeyError", k>>
             /\ (r.resp.status = "ok" /\ k \in FeatureKeys => r.X[k] = Zero)
             /\ (r.resp.status = "ok" /\ k = "market_price" => r.price = Zero)
      /\ \A k \in ShortKeys :
           (r.payload[k] \in BadValues /\ r.payload[VerboseOf(k)] \in BadValues)
             => r.data[k] = Num(Zero)

\* a short cost key counts when the payload holds it and it is not empty
PresentNonEmpty(v) == v.t \notin {"missing", "null"} /\ v # Str(<<>>)

\* C4: each normalized cost field is the coerced value of the short key when
\* that key is present and non-empty (the number 0 included), otherwise the
\* coerced value of the verbose key, otherwise 0.0.
C4_ShortCostKeyPreferred ==
  \A i \in DOMAIN req :
    req[i].pc = "done" =>
      \A k \in ShortKeys :
        LET sv == req[i].payload[k]
            vv == req[i].payload[VerboseOf(k)]
        IN req[i].data[k] =
             Num(IF PresentNonEmpty(sv) THEN to_float(sv)
                 ELSE IF vv.t # "missing" THEN to_float(vv)
                 ELSE Zero)

\* C6: with the dataset absent (ALL_CROPS empty) every request is answered
\* with a structured result and an empty suggestion list, whether the
\* failure detector is true or false.
C6_EmptyCatalogStillAnswers ==
  \A i \in DOMAIN req :
    (req[i].pc = "done" /\ ALL_CROPS = <<>> /\ RequiredKeysPresent(req[i].payload))
      => /\ req[i].resp.status = "ok"
         /\ req[i].resp.Best_Crops = <<>>

\* C8: in every response Best_Crops is non-empty only if the primary profit
\* max(revenue - expense, 0) is > 0, show_suggestions is true exactly when
\* it is, and suggest_best_crops is called exactly when it is.
C8_SuggestionsOnlyWhenProfitable ==
  \A i \in DOMAIN req :
    Answered(i) =>
      LET r == req[i]
          profit == Max0(Sub(Mul(r.predicted_yield, to_float(r.payload["market_price"])),
                             r.predicted_expense))
      IN /\ r.resp.Profit = Fmt2(profit)
         /\ (r.resp.Best_Crops # <<>> => Gt(profit, Zero))
         /\ r.resp.show_suggestions = Gt(profit, Zero)
         /\ r.ranked = Gt(profit, Zero)
         /\ (~Gt(profit, Zero) => r.resp.Best_Crops = <<>>)

\* a loss answered without suggestions although the ranker would have
\* returned some
C8_Witness ==
  \E i \in DOMAIN req :
    /\ Answered(i)
    /\ req[i].profit = Zero
    /\ Gt(req[i].loss, Zero)
    /\ ~req[i].ranked
    /\ req[i].resp.Best_Crops = <<>>
    /\ ~req[i].resp.show_suggestions
    /\ suggest_best_crops(req[i].data, req[i].price, req[i].predicted_yield) # <<>>

----------------------------------------------------------------------------
(* The server handling several requests at once: the host may run handlers *)
(* on several threads, so their statements interleave.                     *)

\* how many requests are in flight at once
NReq == 2

\* a profitable request with costs, the failure scenario, and a request
\* without N
ConcPayloads ==
  {WithShortCosts([Features(50, 50, 50, 30, 50, 6, 100)
                     EXCEPT !["market_price"] = Num(F(10))]),
   [Features(10, 10, 10, 50, 50, 4, 10) EXCEPT !["market_price"] = Num(F(10))],
   [Features(50, 50, 50, 30, 50, 6, 100)
      EXCEPT !["market_price"] = Num(F(10)), !["N"] = Missing]}

ConcModels ==
  {[crop |-> <<"r", "a", "g", "i">>, yield |-> F(1000), expense |-> F(500)],
   [crop |-> <<"R", "i", "c", "e">>, yield |-> F(3), expense |-> F(5)]}

InitConc ==
  /\ ALL_CROPS \in {<<Crop_banana, Crop_cauliflower, Crop_jute, Crop_rice>>, LabelUniverse}
  /\ models \in ConcModels
  /\ call = [fn |-> "none"]
  /\ req = [i \in 1..NReq |-> Idle]

ReceiveConcurrent(i) == Accept(i, ConcPayloads)

\* a faulty variant: the ranking step sorts ALL_CROPS itself by profit, in place
Step_m(i) ==
  /\ Running(req[i])
  /\ req' = [req EXCEPT ![i] = Advance(req[i])]
  /\ ALL_CROPS' =
       IF req[i].pc = "profit" /\ req[i].data["market_price"].t # "missing"
       THEN LET price == to_float(req[i].data["market_price"])
                ranked == SortedByProfitDesc(
                            [k \in 1..Len(ALL_CROPS) |->
                               Candidate(ALL_CROPS[k], req[i].data, price,
                                         req[i].predicted_yield)])
            IN [k \in 1..Len(ranked) |-> ranked[k].Crop]
       ELSE ALL_CROPS
  /\ UNCHANGED <<models, call>>

\* one handler runs its next statement; it writes its own locals only
Step(i) ==
  /\ Running(req[i])
  /\ req' = [req EXCEPT ![i] = Advance(req[i])]
  /\ UNCHANGED <<ALL_CROPS, models, call>>

NextConc ==
  \/ \E i \in DOMAIN req : ReceiveConcurrent(i)
  \/ \E i \in DOMAIN req : Step(i)
  \/ \E i \in DOMAIN req : Reply(i)

SpecConc == InitConc /\ [][NextConc]_vars

\* C10: the response of a request is the one a handler running alone gives
\* for its payload under the startup state, however the handlers
\* interleave; requests with identical payloads get identical responses;
\* and no step of a handler changes the catalog or the models.
C10_ResponsesDependOnPayloadOnly ==
  /\ [](\A i \in DOMAIN req :
          req[i].pc = "done" =>
            /\ req[i].resp = RunToEnd(Arrived(req[i].payload)).resp
            /\ \A j \in DOMAIN req :
                 (req[j].pc = "done" /\ req[j].payload = req[i].payload)
                   => req[j].resp = req[i].resp)
  /\ [][ALL_CROPS' = ALL_CROPS /\ models' = models]_vars

\* two requests with the same payload, one answered with suggestions while
\* the other is still between its statements
C10_Witness ==
  \E i, j \in DOMAIN req :
    /\ i # j
    /\ req[i].payload = req[j].payload
    /\ Answered(i)
    /\ req[i].resp.Best_Crops # <<>>
    /\ req[j].pc = "profit"

====
